---- MODULE Spec2Model ----
(***************************************************************************)
(* A model of research_assist: the research workflow controller            *)
(* (researcher/AgentNodes.py) and the storage gateway                      *)
(* (gsuite/drive/GoogleDriveHelper.py).                                    *)
(*                                                                         *)
(* An AgentState is a Python dict: here a function whose DOMAIN is the set *)
(* of keys that are present, so that a missing key, state.get(k, default)  *)
(* and state[k] (KeyError) are told apart.                                 *)
(***************************************************************************)
EXTENDS Integers, Sequences, FiniteSets, TLC

VARIABLES
    state,       \* the AgentState the engine threads through the node calls
    pc,          \* the engine's position: the node to call next, or "call"/"returned" for a direct call
    verdict,     \* the most recent evaluation of should_continue
    raised,      \* the exception of the most recent call, "none" when it returned
    trace,       \* the nodes the engine has called so far, in order (the first MaxTrace of them)
    fin_writes,  \* how many deltas have written finalized_state (counted up to 2)
    reviewed,    \* some review pass of this run has produced a non-empty critique
    initial,     \* the state the run or the direct call started from
    callee,      \* the node (or the predicate) called most recently
    given,       \* the state object that callee was handed, as it is after the call
    research,    \* the queries and search responses of that call, and the searches it made
    gens,        \* generation passes that returned (counted up to PassCap)
    reviews,     \* review passes that returned (counted up to PassCap)
    empties,     \* some review pass of this run has produced an empty critique
    drive,       \* the remote store: its items in the order the provider lists them
    gw,          \* the GoogleDriveHelper object under construction or constructed
    lookup,      \* the provider's answer to the constructor's folder lookup
    listing,     \* list_all_files in progress: files, page_token, pages served, failure
    list_result, \* what the most recent gateway call returned, when it was list_all_files
    ret,         \* what the most recent gateway call returned, when it was another method
    created      \* the item created through the gateway: the method, its arguments, the id

wvars == <<state, verdict, raised, trace, fin_writes, reviewed, initial,
           callee, given, research, gens, reviews, empties>>
gvars == <<drive, gw, lookup, listing, list_result, ret, created>>
vars == <<pc, wvars, gvars>>

----------------------------------------------------------------------------
(* Bounds of the model *)

\* the most items the remote store holds
MaxItems == 2
\* how many entries the provider puts on one page of a listing
PageSize == 1
\* the largest max_revisions a caller supplies
MaxMaxRevisions == 2
\* the longest content list the search responses are allowed to build
MaxContent == 6
\* the most queries the model generates in one structured Queries answer
MaxQueries == 2
\* how many node calls the trace records
MaxTrace == 7

\* revision_number is counted exactly below RevCap and stays there: RevCap is
\* above every max_revisions + 1, so revision_number > max_revisions is decided
\* as in the code for every value.
RevCap == MaxMaxRevisions + 3

\* passes are counted exactly below PassCap and stay there: a run that starts
\* without a revision_number has revision_number = 1 + passes throughout
PassCap == RevCap - 1

\* max_results of searcher.search
MaxResults == 5

----------------------------------------------------------------------------
(* Python dicts *)

EmptyDict == [k \in {} |-> 0]

Get(s, k, d) == IF k \in DOMAIN s THEN s[k] ELSE d

Merge(s, delta) ==
    [k \in (DOMAIN s) \cup (DOMAIN delta) |->
        IF k \in DOMAIN delta THEN delta[k] ELSE s[k]]

Entry(k, v) == [x \in {k} |-> v]

Optional(k, V) == {EmptyDict} \cup {Entry(k, v) : v \in V}

----------------------------------------------------------------------------
(* What the collaborators can answer *)

Plans == {"p"}
Drafts == {"d"}
\* a reviewer may answer with an empty critique
Critiques == {"", "c"}
QueryStrings == {"q", "r"}
Snippets == {"a", "b"}

\* a search response: {"results": [{"content": ...}, ...]}
Hit(x) == [content |-> x]
Hits(n) == [i \in 1..n |-> Hit(IF i = 1 THEN "b" ELSE "a")]
\* the searcher answers with no hit, one hit, max_results hits or, when it
\* does not honour max_results, one more
SearchResponses == { [results |-> Hits(n)] : n \in {0, 1, MaxResults, MaxResults + 1} }

SeqsUpTo(S, n) == UNION {[1..m -> S] : m \in 0..n}

----------------------------------------------------------------------------
(* The node functions: each takes the state and the collaborators' answers  *)
(* and returns the partial-state delta, or raises.                         *)

Returned(delta) == [raised |-> "none", delta |-> delta]
Raise(e) == [raised |-> e, delta |-> EmptyDict]

\* mutant: every hit is appended twice
Contents_Twice(response) ==
    [i \in 1..(2 * Len(response.results)) |-> response.results[(i + 1) \div 2].content]

\* r["content"] for r in response["results"]
Contents(response) ==
    [i \in 1..Len(response.results) |-> response.results[i].content]

\* mutant: the hits of a query are put in front of the content
RECURSIVE Gather_InFront(_, _, _)
Gather_InFront(content, queries, responses) ==
    IF queries = <<>> THEN content
    ELSE Gather_InFront(Contents(Head(responses)) \o content,
                        Tail(queries), Tail(responses))

\* for q in queries.queries: one search per query, every hit appended
RECURSIVE Gather(_, _, _)
Gather(content, queries, responses) ==
    IF queries = <<>> THEN content
    ELSE Gather(content \o Contents(Head(responses)),
                Tail(queries), Tail(responses))

\* self.searcher.search(query=q, ...) once in every turn of the loop: the
\* queries the searcher was asked, in order
RECURSIVE Searched(_)
Searched(queries) ==
    IF queries = <<>> THEN <<>>
    ELSE <<Head(queries)>> \o Searched(Tail(queries))

\* what a query-expansion node returns: the delta, the searches it made, and
\* arg, the state it was given as it is after the call
Researched(arg, content, queries) ==
    [raised |-> "none", delta |-> Entry("content", content),
     searched |-> Searched(queries), arg |-> arg]

Incr(n) == IF n < RevCap THEN n + 1 ELSE RevCap

plan_node(s, response) ==
    IF "task" \notin DOMAIN s THEN Raise("KeyError")
    ELSE Returned(Entry("plan", response))

\* content is the state's own list when the key is present (a new list
\* otherwise), and the hits are appended to it in place
research_plan_node(s, queries, responses) ==
    IF "task" \notin DOMAIN s THEN Raise("KeyError")
    ELSE LET content == Gather(Get(s, "content", <<>>), queries, responses)
         IN  Researched(IF "content" \in DOMAIN s
                        THEN [s EXCEPT !["content"] = content]
                        ELSE s,
                        content, queries)

\* mutant: a pass adds 2 to revision_number
generation_node_AddTwo(s, response) ==
    IF "task" \notin DOMAIN s \/ "plan" \notin DOMAIN s THEN Raise("KeyError")
    ELSE Returned([draft |-> response,
                   revision_number |-> Incr(Incr(Get(s, "revision_number", 1)))])

\* mutant: a missing revision_number counts as 0
generation_node_DefaultZero(s, response) ==
    IF "task" \notin DOMAIN s \/ "plan" \notin DOMAIN s THEN Raise("KeyError")
    ELSE Returned([draft |-> response,
                   revision_number |-> Incr(Get(s, "revision_number", 0))])

generation_node(s, response) ==
    IF "task" \notin DOMAIN s \/ "plan" \notin DOMAIN s THEN Raise("KeyError")
    ELSE Returned([draft |-> response,
                   revision_number |-> Incr(Get(s, "revision_number", 1))])

review_node(s, response) ==
    IF "draft" \notin DOMAIN s THEN Raise("KeyError")
    ELSE Returned(Entry("critique", response))

\* mutant: the new hits replace the earlier content
research_critique_node_Fresh(s, queries, responses) ==
    IF "critique" \notin DOMAIN s \/ "content" \notin DOMAIN s THEN Raise("KeyError")
    ELSE Returned(Entry("content", Gather(<<>>, queries, responses)))

\* content is the state's own list unless that is empty (state["content"] or
\* []), and the hits are appended to it in place
research_critique_node(s, queries, responses) ==
    IF "critique" \notin DOMAIN s \/ "content" \notin DOMAIN s THEN Raise("KeyError")
    ELSE LET content == Gather(s["content"], queries, responses)
         IN  Researched(IF s["content"] # <<>>
                        THEN [s EXCEPT !["content"] = content]
                        ELSE s,
                        content, queries)

\* mutant: the reject node reports a finalized report
reject_node_True(s) == Returned(Entry("finalized_state", TRUE))

reject_node(s) == Returned(Entry("finalized_state", FALSE))

accept_node(s) == Returned(Entry("finalized_state", TRUE))

\* The continuation predicate. editor_state is FinalizedState.state as the
\* model answers it; consulted says whether the model was asked at all.
\* arg is the state it was evaluated on.
Decision(s, result, consulted, editor_state) ==
    [raised |-> "none", result |-> result, consulted |-> consulted,
     editor |-> editor_state, arg |-> s]

DecisionRaised(s, consulted, editor_state) ==
    [raised |-> "KeyError", result |-> "none", consulted |-> consulted,
     editor |-> editor_state, arg |-> s]

\* mutant: the revision cap is checked before the editor's answer
should_continue_CapFirst(s, editor_state) ==
    LET current_reviewer_comments == Get(s, "critique", "")
    IN  IF current_reviewer_comments = "" THEN Decision(s, "to_review", FALSE, FALSE)
        ELSE IF "content" \notin DOMAIN s THEN DecisionRaised(s, FALSE, FALSE)
        ELSE IF "revision_number" \notin DOMAIN s \/ "max_revisions" \notin DOMAIN s
             THEN DecisionRaised(s, TRUE, editor_state)
        ELSE IF s["revision_number"] > s["max_revisions"]
             THEN Decision(s, "rejected", TRUE, editor_state)
        ELSE IF editor_state THEN Decision(s, "accepted", TRUE, TRUE)
        ELSE Decision(s, "to_review", TRUE, FALSE)

\* mutant: the cap triggers at revision_number = max_revisions already
should_continue_AtCap(s, editor_state) ==
    LET current_reviewer_comments == Get(s, "critique", "")
    IN  IF current_reviewer_comments = "" THEN Decision(s, "to_review", FALSE, FALSE)
        ELSE IF "content" \notin DOMAIN s THEN DecisionRaised(s, FALSE, FALSE)
        ELSE IF editor_state THEN Decision(s, "accepted", TRUE, TRUE)
        ELSE IF "revision_number" \notin DOMAIN s \/ "max_revisions" \notin DOMAIN s
             THEN DecisionRaised(s, TRUE, FALSE)
        ELSE IF s["revision_number"] >= s["max_revisions"]
             THEN Decision(s, "rejected", TRUE, FALSE)
        ELSE Decision(s, "to_review", TRUE, FALSE)

\* mutant: only a missing critique, not an empty one, forces a review
should_continue_MissingOnly(s, editor_state) ==
    IF "critique" \notin DOMAIN s THEN Decision(s, "to_review", FALSE, FALSE)
    ELSE IF "content" \notin DOMAIN s THEN DecisionRaised(s, FALSE, FALSE)
    ELSE IF editor_state THEN Decision(s, "accepted", TRUE, TRUE)
    ELSE IF "revision_number" \notin DOMAIN s \/ "max_revisions" \notin DOMAIN s
         THEN DecisionRaised(s, TRUE, FALSE)
    ELSE IF s["revision_number"] > s["max_revisions"]
         THEN Decision(s, "rejected", TRUE, FALSE)
    ELSE Decision(s, "to_review", TRUE, FALSE)

should_continue(s, editor_state) ==
    LET current_reviewer_comments == Get(s, "critique", "")
    IN  IF current_reviewer_comments = "" THEN Decision(s, "to_review", FALSE, FALSE)
        ELSE IF "content" \notin DOMAIN s THEN DecisionRaised(s, FALSE, FALSE)
        ELSE IF editor_state THEN Decision(s, "accepted", TRUE, TRUE)
        ELSE IF "revision_number" \notin DOMAIN s \/ "max_revisions" \notin DOMAIN s
             THEN DecisionRaised(s, TRUE, FALSE)
        ELSE IF s["revision_number"] > s["max_revisions"]
             THEN Decision(s, "rejected", TRUE, FALSE)
        ELSE Decision(s, "to_review", TRUE, FALSE)

----------------------------------------------------------------------------
(* The graph the engine runs: entry at plan; review is followed by the      *)
(* continuation check, whose answer selects the next node.                 *)

NextNode(node) ==
    CASE node = "plan" -> "research_plan"
      [] node = "research_plan" -> "generation"
      [] node = "generation" -> "review"
      [] node = "review" -> "should_continue"
      [] node = "research_critique" -> "generation"
      [] node = "accept" -> "END"
      [] node = "reject" -> "END"

Route(result) ==
    CASE result = "to_review" -> "research_critique"
      [] result = "accepted" -> "accept"
      [] result = "rejected" -> "reject"

\* what the searcher can answer to the queries, within the content bound
Researches(content) ==
    { qr \in UNION { [queries : {qs}, responses : [1..Len(qs) -> SearchResponses]] :
                     qs \in SeqsUpTo(QueryStrings, MaxQueries) } :
        Len(Gather(content, qr.queries, qr.responses)) <= MaxContent }

NoResearch == [queries |-> <<>>, responses |-> <<>>, searched |-> <<>>]

Count(n) == IF n < PassCap THEN n + 1 ELSE n

\* One node call: the engine merges the returned delta into the state.
Call(node, out) ==
    /\ raised' = out.raised
    /\ callee' = node
    /\ given' = Get(out, "arg", state)
    /\ gens' = IF node = "generation" /\ out.raised = "none" THEN Count(gens) ELSE gens
    /\ reviews' = IF node = "review" /\ out.raised = "none" THEN Count(reviews) ELSE reviews
    /\ empties' = (empties \/ (/\ node = "review"
                               /\ out.raised = "none"
                               /\ out.delta["critique"] = ""))
    /\ state' = IF out.raised = "none" THEN Merge(state, out.delta) ELSE state
    /\ pc' = IF pc = "call" THEN "returned"
             ELSE IF out.raised # "none" THEN "error"
             ELSE NextNode(node)
    /\ trace' = IF Len(trace) >= MaxTrace THEN trace ELSE Append(trace, node)
    /\ fin_writes' = IF /\ out.raised = "none"
                        /\ "finalized_state" \in DOMAIN out.delta
                        /\ fin_writes < 2
                     THEN fin_writes + 1 ELSE fin_writes
    /\ reviewed' = (reviewed \/ (/\ node = "review"
                                 /\ out.raised = "none"
                                 /\ out.delta["critique"] # ""))
    /\ UNCHANGED <<verdict, initial, gvars>>

PlanNode ==
    /\ pc \in {"plan", "call"}
    /\ \E response \in Plans : Call("plan", plan_node(state, response))
    /\ research' = NoResearch

ResearchPlanNode ==
    /\ pc \in {"research_plan", "call"}
    /\ \E qr \in Researches(Get(state, "content", <<>>)) :
          LET out == research_plan_node(state, qr.queries, qr.responses)
          IN  /\ Call("research_plan", out)
              /\ research' = [queries |-> qr.queries, responses |-> qr.responses,
                              searched |-> Get(out, "searched", <<>>)]

GenerationNode ==
    /\ pc \in {"generation", "call"}
    /\ \E response \in Drafts : Call("generation", generation_node(state, response))
    /\ research' = NoResearch

ReviewNode ==
    /\ pc \in {"review", "call"}
    /\ \E response \in Critiques : Call("review", review_node(state, response))
    /\ research' = NoResearch

ResearchCritiqueNode ==
    /\ pc \in {"research_critique", "call"}
    /\ \E qr \in Researches(Get(state, "content", <<>>)) :
          LET out == research_critique_node(state, qr.queries, qr.responses)
          IN  /\ Call("research_critique", out)
              /\ research' = [queries |-> qr.queries, responses |-> qr.responses,
                              searched |-> Get(out, "searched", <<>>)]

RejectNode ==
    /\ pc \in {"reject", "call"}
    /\ Call("reject", reject_node(state))
    /\ research' = NoResearch

AcceptNode ==
    /\ pc \in {"accept", "call"}
    /\ Call("accept", accept_node(state))
    /\ research' = NoResearch

ShouldContinue ==
    /\ pc \in {"should_continue", "call"}
    /\ \E editor_state \in BOOLEAN :
          LET out == should_continue(state, editor_state)
          IN  /\ verdict' = out
              /\ raised' = out.raised
              /\ pc' = IF pc = "call" THEN "returned"
                       ELSE IF out.raised # "none" THEN "error"
                       ELSE Route(out.result)
              /\ callee' = "should_continue"
              /\ given' = state
              /\ research' = NoResearch
              /\ UNCHANGED <<state, trace, fin_writes, reviewed, initial,
                             gens, reviews, empties, gvars>>

----------------------------------------------------------------------------
(* The storage provider: files().list(q, pageToken).execute()               *)

Names == {"top", "x"}

\* None, for a page token or an id
None == 0

\* the stores: item i has id i; a name, folder or not, trashed or not, and the
\* parents it was created under (none on record for the items found there)
Drives ==
    UNION { { [i \in 1..n |-> [id |-> i, name |-> a[i].name,
                               folder |-> a[i].folder, trashed |-> a[i].trashed,
                               parents |-> <<>>]] :
                a \in [1..n -> [name : Names, folder : BOOLEAN, trashed : BOOLEAN]] } :
            n \in 0..MaxItems }

FolderMime == "application/vnd.google-apps.folder"
DocumentMime == "application/vnd.google-apps.document"

\* files().create(body=file_metadata, ...).execute(): the store with the new
\* item, which gets a fresh id and is listed after the items already there
CreateFile(d, file_metadata) ==
    Append(d, [id |-> Len(d) + 1,
               name |-> file_metadata.name,
               folder |-> Get(file_metadata, "mimeType", "") = FolderMime,
               trashed |-> FALSE,
               parents |-> file_metadata.parents])

\* one clause of q is either absent ("any") or a required value
AnyQuery == [mimeType |-> "any", trashed |-> "any", name |-> "any"]

Satisfies(f, q) ==
    /\ q.mimeType = "folder" => f.folder
    /\ q.mimeType = "not folder" => ~f.folder
    /\ q.trashed = "false" => ~f.trashed
    /\ q.name # "any" => f.name = q.name

Matching(d, q) == SelectSeq(d, LAMBDA f : Satisfies(f, q))

Min(a, b) == IF a <= b THEN a ELSE b

\* the page of the listing that starts at page_token (None: the first page):
\* the files, and a nextPageToken when more follow
ListPage(d, q, page_token) ==
    LET all == Matching(d, q)
        from == IF page_token = None THEN 1 ELSE page_token
        upto == Min(from + PageSize - 1, Len(all))
        shown == [i \in 1..(upto - from + 1) |->
                    [id |-> all[from + i - 1].id, name |-> all[from + i - 1].name]]
    IN  IF upto < Len(all)
        THEN [files |-> shown, nextPageToken |-> upto + 1]
        ELSE [files |-> shown]

----------------------------------------------------------------------------
(* GoogleDriveHelper *)

\* q of get_folder_id
TopLevelQuery(folder_name) ==
    [mimeType |-> "folder", trashed |-> "any", name |-> folder_name]

\* mutant: the query of get_file_id_from_name, which leaves folders out
FolderQuery_NotFolder(folder_name) ==
    [mimeType |-> "not folder", trashed |-> "false", name |-> folder_name]

\* q of get_folder_id_from_name
FolderQuery(folder_name) ==
    [mimeType |-> "folder", trashed |-> "false", name |-> folder_name]

\* mutant: no folder found yields a None id instead of raising
get_folder_id_NoRaise(folder_details) ==
    IF Get(folder_details, "files", <<>>) = <<>>
    THEN [raised |-> "none", id |-> None]
    ELSE [raised |-> "none", id |-> Get(folder_details["files"][1], "id", None)]

\* get_folder_id, given the provider's answer folder_details
get_folder_id(folder_details) ==
    IF Get(folder_details, "files", <<>>) = <<>>
    THEN [raised |-> "ValueError", id |-> None]
    ELSE [raised |-> "none", id |-> Get(folder_details["files"][1], "id", None)]

\* list_all_files, the body of the loop for one response: the entries are
\* appended and the next page token is read
list_page(files, response) ==
    LET page == Get(response, "files", <<>>)
        added == [i \in 1..Len(page) |->
                    [id |-> Get(page[i], "id", None), name |-> Get(page[i], "name", "")]]
    IN  [files |-> files \o added,
         page_token |-> Get(response, "nextPageToken", None)]

\* mutant: on an HttpError the files fetched so far are returned
list_except_Partial(files) ==
    [returned |-> TRUE, raised |-> "none", is_none |-> FALSE, files |-> files]

\* list_all_files, except HttpError: files = None
list_except(files) ==
    [returned |-> TRUE, raised |-> "none", is_none |-> TRUE, files |-> <<>>]

\* list_all_files, return files once no page token is left
list_return(files) ==
    [returned |-> TRUE, raised |-> "none", is_none |-> FALSE, files |-> files]

\* get_folder_id_from_name, given the provider's answer: the files of that one
\* response; a nextPageToken in it is not followed
get_folder_id_from_name(response) == Get(response, "files", <<>>)

ExportPrefix == "https://drive.google.com/uc?export=download&id="
WebviewPrefix == "https://drive.google.com/file/d/"

\* mutant: the link is fetched from the provider, as get_webview_link does
create_export_link_Webview(file_id) ==
    [url |-> <<WebviewPrefix, file_id>>, calls |-> 1]

\* create_export_link (a static method): the prefix followed by the file id,
\* built without the provider
create_export_link(file_id) ==
    [url |-> <<ExportPrefix, file_id>>, calls |-> 0]

\* mutant: the folder is put under the top-level folder whatever parent is given
create_new_folder_AlwaysTop(self, folder_name, parent_folder_id) ==
    [name |-> folder_name, mimeType |-> FolderMime,
     parents |-> <<self.top_level_folder_id>>]

\* create_new_folder: the file_metadata handed to files().create
create_new_folder(self, folder_name, parent_folder_id) ==
    [name |-> folder_name, mimeType |-> FolderMime,
     parents |-> IF parent_folder_id # None
                 THEN <<parent_folder_id>>
                 ELSE <<self.top_level_folder_id>>]

\* create_basic_document: the file_metadata handed to files().create
create_basic_document(self, document_name, parent_folder_id) ==
    LET parent == IF parent_folder_id = None
                  THEN self.top_level_folder_id
                  ELSE parent_folder_id
    IN  [name |-> document_name, mimeType |-> DocumentMime, parents |-> <<parent>>]

\* upload_image: the file_metadata handed to files().create with the media
upload_image(self, image_name, parent_folder_id) ==
    LET parent == IF parent_folder_id = None
                  THEN self.top_level_folder_id
                  ELSE parent_folder_id
    IN  [name |-> image_name, parents |-> <<parent>>]

\* the parent_folder_id arguments: None, or the id of a folder of the store
ParentArgs(d) == {None} \cup {d[i].id : i \in {j \in 1..Len(d) : d[j].folder}}

\* the file ids a caller asks a link for
FileIds == 1..(MaxItems + 1)

NoGateway == [status |-> "none", folder_name |-> "", top_level_folder_id |-> None]
NoLookup == [answered |-> FALSE, files |-> <<>>]
Idle == [files |-> <<>>, page_token |-> None, served |-> 0, failed |-> FALSE]
NoResult == [returned |-> FALSE, raised |-> "none", is_none |-> FALSE, files |-> <<>>]
NoRet == [op |-> "none", name |-> "", id |-> None, files |-> <<>>, url |-> <<>>, calls |-> 0]
NoCreated == [op |-> "none", name |-> "", parent_folder_id |-> None, id |-> None]

\* a method other than list_all_files returns r
Returns(r) ==
    /\ ret' = r
    /\ listing' = Idle
    /\ list_result' = NoResult

\* GoogleDriveHelper(folder_name), the provider answering the lookup
Construct ==
    /\ pc = "new"
    /\ \E folder_name \in Names :
          LET folder_details == ListPage(drive, TopLevelQuery(folder_name), None)
              out == get_folder_id(folder_details)
          IN  /\ lookup' = [answered |-> TRUE, files |-> folder_details.files]
              /\ gw' = [status |-> IF out.raised = "none" THEN "constructed" ELSE out.raised,
                        folder_name |-> folder_name,
                        top_level_folder_id |-> out.id]
              /\ pc' = IF out.raised = "none" THEN "ready" ELSE "failed"
    /\ ret' = NoRet
    /\ UNCHANGED <<wvars, drive, listing, list_result, created>>

\* GoogleDriveHelper(folder_name), the lookup raising an HttpError
ConstructHttpError ==
    /\ pc = "new"
    /\ \E folder_name \in Names :
          gw' = [status |-> "HttpError", folder_name |-> folder_name,
                 top_level_folder_id |-> None]
    /\ pc' = "failed"
    /\ ret' = NoRet
    /\ UNCHANGED <<wvars, drive, lookup, listing, list_result, created>>

\* list_all_files is called: files = [], page_token = None
ListAllFiles ==
    /\ pc = "ready"
    /\ pc' = "listing"
    /\ listing' = Idle
    /\ list_result' = NoResult
    /\ ret' = NoRet
    /\ UNCHANGED <<wvars, drive, gw, lookup, created>>

\* one turn of the loop: the provider serves the page
FetchPage ==
    /\ pc = "listing"
    /\ LET response == ListPage(drive, AnyQuery, listing.page_token)
           got == list_page(listing.files, response)
       IN  /\ listing' = [files |-> got.files, page_token |-> got.page_token,
                          served |-> listing.served + 1, failed |-> FALSE]
           /\ IF got.page_token = None
              THEN pc' = "ready" /\ list_result' = list_return(got.files)
              ELSE pc' = "listing" /\ UNCHANGED list_result
    /\ UNCHANGED <<wvars, drive, gw, lookup, ret, created>>

\* one turn of the loop: execute() raises an HttpError
FetchPageHttpError ==
    /\ pc = "listing"
    /\ listing' = [listing EXCEPT !.failed = TRUE]
    /\ list_result' = list_except(listing.files)
    /\ pc' = "ready"
    /\ UNCHANGED <<wvars, drive, gw, lookup, ret, created>>

\* files().create(...).execute() for file_metadata, on behalf of method op:
\* the item is in the store and its id is returned
Create(op, name, parent_folder_id, file_metadata) ==
    LET stored == CreateFile(drive, file_metadata)
        file == stored[Len(stored)]
    IN  /\ drive' = stored
        /\ created' = [op |-> op, name |-> name,
                       parent_folder_id |-> parent_folder_id,
                       id |-> Get(file, "id", None)]
        /\ Returns([NoRet EXCEPT !.op = op, !.name = name,
                                 !.id = Get(file, "id", None), !.calls = 1])

\* create_new_folder(folder_name, parent_folder_id)
CreateNewFolder ==
    /\ pc = "ready"
    /\ created = NoCreated
    /\ \E folder_name \in Names, parent_folder_id \in ParentArgs(drive) :
          Create("create_new_folder", folder_name, parent_folder_id,
                 create_new_folder(gw, folder_name, parent_folder_id))
    /\ UNCHANGED <<pc, wvars, gw, lookup>>

\* create_basic_document(document_name, parent_folder_id)
CreateBasicDocument ==
    /\ pc = "ready"
    /\ created = NoCreated
    /\ \E document_name \in Names, parent_folder_id \in ParentArgs(drive) :
          Create("create_basic_document", document_name, parent_folder_id,
                 create_basic_document(gw, document_name, parent_folder_id))
    /\ UNCHANGED <<pc, wvars, gw, lookup>>

\* upload_image(image_name, parent_folder_id)
UploadImage ==
    /\ pc = "ready"
    /\ created = NoCreated
    /\ \E image_name \in Names, parent_folder_id \in ParentArgs(drive) :
          Create("upload_image", image_name, parent_folder_id,
                 upload_image(gw, image_name, parent_folder_id))
    /\ UNCHANGED <<pc, wvars, gw, lookup>>

\* get_folder_id_from_name(folder_name): one files().list(...).execute()
GetFolderIdFromName ==
    /\ pc = "ready"
    /\ \E folder_name \in Names :
          LET response == ListPage(drive, FolderQuery(folder_name), None)
          IN  Returns([NoRet EXCEPT !.op = "get_folder_id_from_name",
                                    !.name = folder_name,
                                    !.files = get_folder_id_from_name(response),
                                    !.calls = 1])
    /\ UNCHANGED <<pc, wvars, drive, gw, lookup, created>>

\* create_export_link(file_id), callable with or without a gateway object
CreateExportLink ==
    /\ pc \in {"new", "ready", "failed"}
    /\ \E file_id \in FileIds :
          LET out == create_export_link(file_id)
          IN  Returns([NoRet EXCEPT !.op = "create_export_link", !.id = file_id,
                                    !.url = out.url, !.calls = out.calls])
    /\ UNCHANGED <<pc, wvars, drive, gw, lookup, created>>

----------------------------------------------------------------------------
(* Initial states *)

\* what a caller hands to the engine: the task and max_revisions, and
\* possibly values left over from an earlier session
EngineStates ==
    { Merge(Merge(Merge([task |-> "t", max_revisions |-> m], r), c), n) :
        m \in 0..MaxMaxRevisions,
        r \in Optional("revision_number", 0..RevCap),
        c \in Optional("critique", {"c"}),
        n \in Optional("content", {<<"a">>}) }

\* the states a node or the predicate can be called on directly
DirectStates ==
    { Merge(Merge(Merge(Merge(Merge(Entry("task", "t"), pd), m), r), c), n) :
        pd \in {EmptyDict, [plan |-> "p", draft |-> "d"]},
        m \in Optional("max_revisions", 0..MaxMaxRevisions),
        r \in Optional("revision_number", 0..RevCap),
        c \in Optional("critique", Critiques),
        n \in Optional("content", {<<>>, <<"b">>}) }

NoVerdict == [raised |-> "none", result |-> "none", consulted |-> FALSE,
              editor |-> FALSE, arg |-> EmptyDict]

Init ==
    /\ \/ pc = "plan" /\ state \in EngineStates /\ drive = <<>>
       \/ pc = "call" /\ state \in DirectStates /\ drive = <<>>
       \/ pc = "new" /\ state = EmptyDict /\ drive \in Drives
    /\ gw = NoGateway
    /\ lookup = NoLookup
    /\ listing = Idle
    /\ list_result = NoResult
    /\ ret = NoRet
    /\ created = NoCreated
    /\ initial = state
    /\ callee = "none"
    /\ given = EmptyDict
    /\ research = NoResearch
    /\ gens = 0
    /\ reviews = 0
    /\ empties = FALSE
    /\ verdict = NoVerdict
    /\ raised = "none"
    /\ trace = <<>>
    /\ fin_writes = 0
    /\ reviewed = FALSE

Next ==
    \/ PlanNode
    \/ ResearchPlanNode
    \/ GenerationNode
    \/ ReviewNode
    \/ ResearchCritiqueNode
    \/ ShouldContinue
    \/ AcceptNode
    \/ RejectNode
    \/ Construct
    \/ ConstructHttpError
    \/ ListAllFiles
    \/ FetchPage
    \/ FetchPageHttpError
    \/ CreateNewFolder
    \/ CreateBasicDocument
    \/ UploadImage
    \/ GetFolderIdFromName
    \/ CreateExportLink

Spec == Init /\ [][Next]_vars

\* the engine calls the next node as soon as the previous one returns
FairSpec == Spec /\ WF_vars(Next)

----------------------------------------------------------------------------
(* Properties *)

IsPrefix(a, b) == Len(a) <= Len(b) /\ SubSeq(b, 1, Len(a)) = a

\* should_continue has been evaluated (it returned or raised)
Evaluated == verdict # NoVerdict

\* revision_number > max_revisions in s
Exceeds(s) ==
    /\ "revision_number" \in DOMAIN s
    /\ "max_revisions" \in DOMAIN s
    /\ s["revision_number"] > s["max_revisions"]

\* positions of an engine run (a direct call is at "call" or "returned")
EngineRun ==
    pc \in {"plan", "research_plan", "generation", "review", "should_continue",
            "research_critique", "accept", "reject", "END", "error"}

\* C1: whenever should_continue consults the model and the model answers
\* state = true, it returns "accepted", whatever revision_number and
\* max_revisions are.
C1_EditorAcceptanceWins ==
    (verdict.consulted /\ verdict.editor) =>
        (verdict.raised = "none" /\ verdict.result = "accepted")

\* C1 witness: an engine run on its way to the accept node although
\* revision_number > max_revisions.
C1_Witness ==
    /\ pc = "accept"
    /\ verdict.consulted /\ verdict.editor
    /\ Exceeds(verdict.arg)

\* C2: "rejected" is returned only on a state with revision_number >
\* max_revisions; with a non-empty critique, the model answering false and
\* revision_number > max_revisions it is returned; the reject node is reached
\* only with revision_number > max_revisions.
C2_RejectOnlyBeyondCap ==
    /\ verdict.result = "rejected" => Exceeds(verdict.arg)
    /\ (/\ verdict.consulted
        /\ ~verdict.editor
        /\ Exceeds(verdict.arg)) => verdict.result = "rejected"
    /\ pc = "reject" => Exceeds(state)

\* C2 witness: the reject node reached in an engine run with revision 3 against
\* a cap of 2.
C2_Witness ==
    /\ pc = "reject"
    /\ verdict.result = "rejected"
    /\ state["revision_number"] = 3
    /\ state["max_revisions"] = 2

\* C3: on an empty or missing critique should_continue returns "to_review"
\* without consulting the model, whatever the counters are; and an engine run
\* is at the accept or reject node (or past it) only after a review pass has
\* produced a non-empty critique.
C3_NoCritiqueForcesReview ==
    /\ (Evaluated /\ Get(verdict.arg, "critique", "") = "") =>
            /\ verdict.raised = "none"
            /\ verdict.result = "to_review"
            /\ ~verdict.consulted
    /\ pc \in {"accept", "reject", "END"} =>
            (reviewed /\ Get(state, "critique", "") # "")

\* C3 witness: the predicate called on a state with no critique key and
\* revision_number > max_revisions.
C3_Witness ==
    /\ Evaluated
    /\ "critique" \notin DOMAIN verdict.arg
    /\ Exceeds(verdict.arg)
    /\ verdict.result = "to_review"

\* C4: every engine run reaches the accept node or the reject node.
C4_EveryRunTerminates == (pc = "plan") ~> (pc \in {"accept", "reject"})

\* C5: content is append-only: every step leaves the earlier content as a
\* prefix of the new content and never drops the key.
C5_ContentAppendOnly ==
    [][/\ IsPrefix(Get(state, "content", <<>>), Get(state', "content", <<>>))
       /\ "content" \in DOMAIN state => "content" \in DOMAIN state']_vars

\* C5 witness: research_critique has run, as the engine's fifth node, on
\* content that research_plan had filled, and added to it.
C5_Witness ==
    /\ Len(trace) >= 5
    /\ trace[2] = "research_plan"
    /\ trace[5] = "research_critique"
    /\ pc = "generation"
    /\ Len(state["content"]) >= 3

Scenario ==
    /\ EngineRun
    /\ initial["max_revisions"] = 2
    /\ "critique" \notin DOMAIN initial
    /\ "revision_number" \notin DOMAIN initial

FirstPass == <<"plan", "research_plan", "generation", "review">>
TwoPasses == FirstPass \o <<"research_critique", "generation", "review">>

\* the continuation check that follows the first review has just answered
AfterFirstCheck ==
    /\ trace = FirstPass
    /\ pc \in {"research_critique", "accept", "reject"}

\* C10 as stated: in the scenario the first pass is plan, research_plan,
\* generation (revision_number 2), review; the check after it answers
\* "to_review"; the run goes on with research_critique, generation, review.
C10_FirstCheckToReview ==
    Scenario =>
        /\ IsPrefix(trace, TwoPasses) \/ IsPrefix(TwoPasses, trace)
        /\ (trace = SubSeq(FirstPass, 1, 3)) => state["revision_number"] = 2
        /\ AfterFirstCheck => verdict.result = "to_review"

\* C10 amended: the check after the first review answers "accepted" when the
\* editor answers finalized and "to_review" otherwise, never "rejected"; after
\* "to_review" the run goes on with research_critique, generation, review.
C10_FirstCheckAcceptOrReview ==
    Scenario =>
        /\ \/ IsPrefix(trace, TwoPasses) \/ IsPrefix(TwoPasses, trace)
           \/ trace = FirstPass \o <<"accept">>
        /\ (trace = SubSeq(FirstPass, 1, 3)) => state["revision_number"] = 2
        /\ AfterFirstCheck =>
              verdict.result = (IF verdict.editor THEN "accepted" ELSE "to_review")
        /\ (AfterFirstCheck /\ verdict.result = "to_review") => pc = "research_critique"

\* C10 witness: the scenario's run has looped once and is back after review.
C10_Witness ==
    /\ Scenario
    /\ trace = TwoPasses
    /\ pc = "should_continue"
    /\ verdict.result = "to_review"

----------------------------------------------------------------------------
(* Properties of the storage gateway *)

\* the (id, name) entries of the whole store, in the provider's order
Listed(d) == [i \in 1..Len(d) |-> [id |-> d[i].id, name |-> d[i].name]]

\* the folders of the store that carry the name, trashed or not
FoldersNamed(d, n) == SelectSeq(d, LAMBDA f : f.folder /\ f.name = n)

\* the folders of the store that carry the name and are not trashed
LiveFoldersNamed(d, n) == SelectSeq(d, LAMBDA f : f.folder /\ f.name = n /\ ~f.trashed)

\* C6: list_all_files is all-or-nothing: with every page served the result is
\* the entries of all pages in page order; with an HttpError on any page, the
\* first or a later one, the result is None; no exception reaches the caller
\* and nothing is returned while pages remain.
C6_ListAllOrNothing ==
    /\ list_result.returned =>
          /\ list_result.raised = "none"
          /\ IF listing.failed
             THEN list_result.is_none /\ list_result.files = <<>>
             ELSE /\ ~list_result.is_none
                  /\ list_result.files = Listed(drive)
                  /\ listing.served * PageSize >= Len(drive)
    /\ pc = "listing" => ~list_result.returned

\* C6 witness: a page fetch failed after an earlier page had delivered
\* entries, and the call returned None.
C6_Witness ==
    /\ list_result.returned
    /\ listing.failed
    /\ listing.served >= 1
    /\ listing.files # <<>>
    /\ list_result.is_none

C8_TopLevelFolderNotTrashed ==
    /\ gw.status = "constructed" =>
          \A i \in 1..Len(drive) :
              drive[i].id = gw.top_level_folder_id => ~drive[i].trashed
    /\ (lookup.answered /\ LiveFoldersNamed(drive, gw.folder_name) = <<>>) =>
          gw.status = "ValueError"

----------------------------------------------------------------------------
(* The first continuation check and the revision cap *)

\* C11 as stated: the check that follows the first review never answers
\* "rejected", whatever max_revisions is.
C11_FirstCheckNeverRejects ==
    (EngineRun /\ AfterFirstCheck) => verdict.result # "rejected"

\* C11 amended: the check that follows the first review answers "rejected"
\* exactly when the critique is non-empty, the editor does not answer
\* finalized and revision_number > max_revisions; in a run whose initial state
\* has no revision_number (revision_number is 2 at that check) it answers
\* "rejected" only for max_revisions < 2 and never for max_revisions >= 2.
C11_FirstCheckRejectsBeyondCap ==
    (EngineRun /\ AfterFirstCheck) =>
        /\ verdict.result = "rejected" <=>
              /\ Get(verdict.arg, "critique", "") # ""
              /\ verdict.consulted /\ ~verdict.editor
              /\ Exceeds(verdict.arg)
        /\ "revision_number" \notin DOMAIN initial =>
              /\ verdict.arg["revision_number"] = 2
              /\ verdict.result = "rejected" => initial["max_revisions"] < 2

\* C11 witness: a run that started without a revision_number and with
\* max_revisions = 1 is sent to the reject node by the first check.
C11_Witness ==
    /\ EngineRun /\ AfterFirstCheck
    /\ "revision_number" \notin DOMAIN initial
    /\ initial["max_revisions"] = 1
    /\ verdict.result = "rejected"
    /\ pc = "reject"

----------------------------------------------------------------------------
(* Properties of the gateway's creation, lookup and link methods *)

\* get_folder_id_from_name(name) has returned, and it was called after
\* create_new_folder(name, ...) had returned created.id
RoundTrip ==
    /\ created.op = "create_new_folder"
    /\ ret.op = "get_folder_id_from_name"
    /\ ret.name = created.name

\* the list returned holds an entry with the id and the name of the created folder
ListsCreated ==
    \E i \in 1..Len(ret.files) :
        ret.files[i] = [id |-> created.id, name |-> created.name]

\* C12 as stated: after create_new_folder(name) returned id F,
\* get_folder_id_from_name(name) returns a list with an entry of id F and
\* that name, under the default parent and under an explicit parent.
C12_RoundTrip == RoundTrip => ListsCreated

\* C12 amended: the same, provided the non-trashed folders of that name fit
\* on one page of the provider's listing; the list is never longer than one
\* page, and every entry of it is a non-trashed folder of that name.
C12_RoundTripWithinOnePage ==
    RoundTrip =>
        LET live == LiveFoldersNamed(drive, created.name)
        IN  /\ created.id # None
            /\ Len(live) <= PageSize => ListsCreated
            /\ Len(ret.files) <= PageSize
            /\ \A i \in 1..Len(ret.files) :
                  \E j \in 1..Len(live) :
                      ret.files[i] = [id |-> live[j].id, name |-> live[j].name]

\* C12 witness: a folder created under an explicit parent is found by its name.
C12_Witness ==
    /\ RoundTrip
    /\ created.parent_folder_id # None
    /\ ListsCreated

\* C12 witness of the default parent: a folder created with no parent given
\* is found by its name.
C12_WitnessDefaultParent ==
    /\ RoundTrip
    /\ created.parent_folder_id = None
    /\ ListsCreated

\* C13: create_export_link makes no provider call, leaves the gateway object
\* and the remote store as they are, and returns the export prefix followed by
\* the file id, whatever was called before it.
C13_ExportLinkIsPure ==
    [][ret'.op = "create_export_link" =>
          /\ ret'.calls = 0
          /\ gw' = gw
          /\ drive' = drive
          /\ created' = created
          /\ ret'.url = <<"https://drive.google.com/uc?export=download&id=", ret'.id>>]_vars

\* C13 witness: the link is built for the item a gateway method has just created.
C13_Witness ==
    /\ ret.op = "create_export_link"
    /\ created.id # None
    /\ ret.id = created.id
    /\ ret.url = <<ExportPrefix, created.id>>

\* the item of store d that carries the id
ItemWithId(d, id) == d[CHOOSE i \in 1..Len(d) : d[i].id = id]

\* the item created through the gateway has exactly one parent: the
\* parent_folder_id given, or the gateway's top_level_folder_id when none was
Placed(d, c, g) ==
    c.id # None =>
        /\ \E i \in 1..Len(d) : d[i].id = c.id
        /\ ItemWithId(d, c.id).name = c.name
        /\ ItemWithId(d, c.id).parents =
              <<IF c.parent_folder_id # None
                THEN c.parent_folder_id
                ELSE g.top_level_folder_id>>

\* C18: create_new_folder, create_basic_document and upload_image put the new
\* item under exactly one parent, the parent_folder_id given or else the
\* top_level_folder_id resolved at construction; no step changes folder_name
\* or top_level_folder_id of a constructed gateway.
C18_OneParentAndFixedGateway ==
    [][/\ Placed(drive', created', gw')
       /\ gw.status = "constructed" =>
             /\ gw'.folder_name = gw.folder_name
             /\ gw'.top_level_folder_id = gw.top_level_folder_id]_vars

\* C18 witness: a document created with no parent given lies under the
\* top-level folder, although other folders exist.
C18_Witness ==
    /\ created.op = "create_basic_document"
    /\ created.parent_folder_id = None
    /\ ItemWithId(drive, created.id).parents = <<gw.top_level_folder_id>>
    /\ \E i \in 1..Len(drive) : drive[i].folder /\ drive[i].id # gw.top_level_folder_id

----------------------------------------------------------------------------
(* Properties of the revision counter and of the query-expansion nodes *)

\* the step changes revision_number: its value, or whether the key is there
RevisionChanges ==
    \/ ("revision_number" \in DOMAIN state) # ("revision_number" \in DOMAIN state')
    \/ /\ "revision_number" \in DOMAIN state
       /\ "revision_number" \in DOMAIN state'
       /\ state["revision_number"] # state'["revision_number"]

\* a generation pass returns in this step
GenerationPass == callee' = "generation" /\ raised' = "none"

\* C14: only the generation node changes revision_number; a pass adds exactly
\* 1 and takes a missing value as 1; so a run or call that starts without a
\* revision_number has no revision_number before the first pass and
\* revision_number = 1 + k after k passes (counted below RevCap).
C14_RevisionCountsGenerationPasses ==
    [][/\ RevisionChanges => callee' = "generation"
       /\ (GenerationPass /\ Get(state, "revision_number", 1) < RevCap) =>
             state'["revision_number"] = Get(state, "revision_number", 1) + 1
       /\ "revision_number" \notin DOMAIN initial =>
             IF gens' = 0
             THEN "revision_number" \notin DOMAIN state'
             ELSE state'["revision_number"] = 1 + gens']_vars

\* C14 witness: an engine run that started without a revision_number is
\* about to check its third draft, with revision_number 4.
C14_Witness ==
    /\ EngineRun
    /\ "revision_number" \notin DOMAIN initial
    /\ gens = 3
    /\ callee = "review"
    /\ state["revision_number"] = 4

\* a query-expansion node returns in this step
ResearchPass ==
    /\ callee' \in {"research_plan", "research_critique"}
    /\ raised' = "none"

\* the hits of all the responses, response after response
RECURSIVE AllHits(_)
AllHits(responses) ==
    IF responses = <<>> THEN <<>>
    ELSE [i \in 1..Len(Head(responses).results) |-> Head(responses).results[i].content]
            \o AllHits(Tail(responses))

\* how many entries the step adds to content
Growth == Len(Get(state', "content", <<>>)) - Len(Get(state, "content", <<>>))

\* every response holds at most max_results results
Honoured(responses) ==
    \A i \in 1..Len(responses) : Len(responses[i].results) <= MaxResults

\* C15: no node changes the state object it is given: after every call of a
\* node (or of the predicate) the object is as it was before the call.
C15_NodesLeaveInputUnchanged ==
    [][callee' # "none" => given' = state]_vars

\* C16: after research_plan or research_critique the content is the prior
\* content followed by the hits of each query, queries in the order they were
\* generated and hits in the order the searcher returned them, with one
\* search per query and nothing else appended.
C16_ContentIsPriorPlusHitsInOrder ==
    [][ResearchPass =>
          /\ state'["content"] =
                Get(state, "content", <<>>) \o AllHits(research'.responses)
          /\ research'.searched = research'.queries
          /\ Len(research'.responses) = Len(research'.queries)]_vars

\* C16 witness: research_critique, with two different queries, has put the
\* five hits of the first and then the hit of the second behind the content.
C16_Witness ==
    /\ callee = "research_critique"
    /\ raised = "none"
    /\ research.queries = <<"r", "q">>
    /\ research.searched = <<"r", "q">>
    /\ Len(research.responses[1].results) = MaxResults
    /\ Len(research.responses[2].results) = 1
    /\ state["content"] = <<"b", "a", "a", "a", "a", "b">>

\* C17 as stated: whatever the searcher answers, a query-expansion node adds
\* at most 5 entries to content per generated query.
C17_AtMostFivePerQuery ==
    [][ResearchPass => Growth <= MaxResults * Len(research'.queries)]_vars

\* C17 amended: a query-expansion node adds at most as many entries as the
\* searcher returned (it truncates nothing and adds nothing), so at most 5 per
\* generated query when every response holds at most max_results = 5 results.
C17_AtMostWhatTheSearcherReturned ==
    [][ResearchPass =>
          /\ Growth <= Len(AllHits(research'.responses))
          /\ Honoured(research'.responses) =>
                Growth <= MaxResults * Len(research'.queries)]_vars

\* C17 witness: research_plan got a full response of 5 results for its one
\* query and the content has grown by 5.
C17_Witness ==
    /\ callee = "research_plan"
    /\ raised = "none"
    /\ Len(research.queries) = 1
    /\ Len(research.responses[1].results) = MaxResults
    /\ Len(state["content"]) = Len(Get(initial, "content", <<>>)) + MaxResults
    /\ pc \in {"generation", "returned"}

Max(a, b) == IF a >= b THEN a ELSE b

\* a run in which the caller gave no revision_number and every review so far
\* has produced a non-empty critique
CappedRun ==
    /\ EngineRun
    /\ "revision_number" \notin DOMAIN initial
    /\ ~empties

\* C19: in such a run, as long as the editor does not answer finalized, the
\* loop goes on only below max(1, max_revisions) generation passes and the
\* reject node is reached after exactly max(1, max_revisions) generation
\* passes and as many review passes; there are never more passes than that.
C19_RejectedAfterCapPasses ==
    CappedRun =>
        LET cap == Max(1, initial["max_revisions"])
        IN  /\ gens <= cap
            /\ pc = "research_critique" => gens < cap
            /\ (pc = "reject" \/ callee = "reject") => (gens = cap /\ reviews = cap)
            /\ (/\ pc \in {"research_critique", "accept", "reject"}
                /\ gens = cap
                /\ ~verdict.editor) => (pc = "reject" /\ verdict.result = "rejected")

\* C19 witness: with max_revisions = 2 the run has ended through the reject
\* node after two drafts and two reviews.
C19_Witness ==
    /\ CappedRun
    /\ initial["max_revisions"] = 2
    /\ pc = "END"
    /\ callee = "reject"
    /\ gens = 2 /\ reviews = 2
    /\ IsPrefix(TwoPasses, trace)

====
